---- MODULE Spec2Model ----
(***************************************************************************)
(* Model of wemake_python_styleguide/visitors/ast/blocks.py:               *)
(*   - BlockVariableVisitor with the class-level _Scope stores             *)
(*     (block/local names per context, overlap detection);                 *)
(*   - AfterBlockVariablesVisitor (control variables used after a block).  *)
(*                                                                         *)
(* The syntax tree is the input.  Nodes are numbered in document order     *)
(* (pre-order), which is the order ast.NodeVisitor visits them, so the     *)
(* tree is a sequence of nodes with parent pointers and the traversal      *)
(* visits node pos + 1 next.  The tree is revealed node by node while the  *)
(* first run walks it; a second run walks the very same tree again.        *)
(* The two visitors keep disjoint state, hence one step of the model       *)
(* dispatches the node to the handler of each of the two visitors.         *)
(***************************************************************************)
EXTENDS Integers, Sequences, FiniteSets, TLC

VARIABLES
    tree,             \* the syntax tree, nodes in document order
    pos,              \* number of nodes the running visitors have visited
    run,              \* "first" or "second" run over the tree
    block_scopes,     \* _Scope._block_scopes (ClassVar): context -> names
    local_scopes,     \* _Scope._local_scopes (ClassVar): context -> names
    bv_violations,    \* BlockVariableVisitor().violations
    block_variables,  \* AfterBlockVariablesVisitor()._block_variables
    ab_violations,    \* AfterBlockVariablesVisitor().violations
    events,           \* history: the _scope calls of the running visitor
    reads,            \* history: the _check_variable_usage calls
    prev_violations   \* history: violations of the finished first run

vars == <<tree, pos, run, block_scopes, local_scopes, bv_violations,
          block_variables, ab_violations, events, reads, prev_violations>>

bv_vars == <<block_scopes, local_scopes, bv_violations, events>>
ab_vars == <<block_variables, ab_violations, reads>>

(***************************************************************************)
(* Bounds of the input.                                                    *)
(***************************************************************************)
MaxNodes == 3

UNUSED_VARIABLE == "_"
NameOrder == <<"a", "b">>
Names == {UNUSED_VARIABLE} \cup {NameOrder[i] : i \in DOMAIN NameOrder}

Module == 0
Nodes == 1..MaxNodes
Contexts == {Module} \cup Nodes

\* A "Def" node is a FunctionDef, an AsyncFunctionDef or a ClassDef: the
\* nodes that open a lexical context.  "For" stands for For and AsyncFor,
\* "Assign" for Assign and AnnAssign, "With" for With and AsyncWith,
\* "Import" for Import and ImportFrom.
ContextKinds == {"Def"}
StatementKinds == {"Def", "ExceptHandler", "For", "Import", "With", "Assign"}
BodyKinds == {"Module", "Def", "ExceptHandler", "For", "With"}
\* Assignments and imports are leaves that are handled by their context
\* alone: the tree has them in the body of a module, function or class, not
\* deeper inside a loop, handler or with statement of that body.
PlainKinds == {"Import", "Assign"}

(***************************************************************************)
(* Tree helpers: logic.nodes.get_parent / get_context, logic.walk.         *)
(***************************************************************************)
get_parent(t, n) == t[n].parent

KindOf(t, n) == IF n = Module THEN "Module" ELSE t[n].kind

RECURSIVE get_context(_, _)
get_context(t, n) ==
    LET p == get_parent(t, n)
    IN  IF p = Module THEN Module
        ELSE IF t[p].kind \in ContextKinds THEN p
        ELSE get_context(t, p)

RECURSIVE is_contained_by(_, _, _)
is_contained_by(t, node, to_check) ==
    \/ node = to_check
    \/ /\ node # Module
       /\ is_contained_by(t, get_parent(t, node), to_check)

\* The orders in which iterating a set of strings can yield its members.
Orderings(S) ==
    {s \in [1..Cardinality(S) -> S] : \A i, j \in DOMAIN s : i # j => s[i] # s[j]}

(***************************************************************************)
(* The input: which node may come next in document order.                  *)
(***************************************************************************)
RECURSIVE Ancestors(_, _)
Ancestors(t, n) ==
    IF n = Module THEN {Module} ELSE {n} \cup Ancestors(t, get_parent(t, n))

RightPath(t) == IF t = <<>> THEN {Module} ELSE Ancestors(t, Len(t))

\* A target is a name or a tuple of two names.
TargetSets == {{x, y} : x, y \in Names}
OneName == {{x} : x \in Names}

\* The names of a node, by its kind.  A handler without a name and a with
\* item without optional_vars have none.
NamesOfKind(k) ==
    CASE k \in {"For", "Assign"} -> TargetSets
      [] k \in {"Def", "alias", "arg", "Name"} -> OneName
      [] k \in {"ExceptHandler", "withitem"} -> OneName \cup {{}}
      [] OTHER -> {{}}

\* The first children of a function, a with or an import statement.
HeadKind(k) ==
    CASE k = "Def" -> "arg"
      [] k = "With" -> "withitem"
      [] k = "Import" -> "alias"
      [] OTHER -> "none"

\* Whether a node of kind k (a Name with expression context c) may follow
\* the tree t in document order as a child of p.
MayFollow(t, p, k, c) ==
    LET pk == KindOf(t, p)
        last == Len(t)
        atHead == \/ last = p
                  \/ /\ last # 0
                     /\ t[last].parent = p
                     /\ t[last].kind = HeadKind(pk)
        needsHead == /\ last # 0
                     /\ t[last].kind \in {"With", "Import"}
    IN  /\ needsHead => (p = last /\ k = HeadKind(pk))
        /\ \/ /\ k \in StatementKinds /\ pk \in BodyKinds
              /\ k \in PlainKinds => pk \in ContextKinds \cup {"Module"}
           \/ k = "Name" /\ c = "Load" /\ pk \in BodyKinds
           \/ k = "Name" /\ c = "Store" /\ pk = "For" /\ last = p
           \/ k = HeadKind(pk) /\ p # Module /\ atHead

\* The names of the tree t.
NamesIn(t) == UNION {t[n].names : n \in DOMAIN t}

\* The program names its variables in the order of NameOrder: a name first
\* occurs in S only if the names before it occur in t or in S.  Any other
\* program is one of these with its variables renamed.
InOrder(t, S) ==
    \A i, j \in DOMAIN NameOrder :
        (i < j /\ NameOrder[j] \in S) => NameOrder[i] \in S \cup NamesIn(t)

\* A Store name right under a loop is the loop's target.
NamesAt(t, p, k, c) ==
    IF k = "Name" /\ c = "Store"
    THEN {{x} : x \in t[p].names}
    ELSE {S \in NamesOfKind(k) : InOrder(t, S)}

KindCtx(kinds) ==
    {kc \in kinds \X {"Load", "Store", "None"} :
        (kc[1] = "Name") = (kc[2] # "None")}

\* The nodes of the given kinds that the traversal may visit next.
NextNodes(kinds) ==
    IF pos < Len(tree)
    THEN {nd \in {tree[pos + 1]} : nd.kind \in kinds}
    ELSE IF run = "first" /\ Len(tree) < MaxNodes
    THEN UNION {UNION {
             {[kind |-> kc[1], parent |-> p, names |-> S, ctx |-> kc[2]] :
                 S \in NamesAt(tree, p, kc[1], kc[2])} :
             p \in {q \in RightPath(tree) :
                       MayFollow(tree, q, kc[1], kc[2])}} :
             kc \in KindCtx(kinds)}
    ELSE {}

TreeWith(nd) == IF pos < Len(tree) THEN tree ELSE Append(tree, nd)

(***************************************************************************)
(* class _Scope.  Its two stores are class attributes: every instance, of  *)
(* every visitor, reads and updates the same two mappings.                 *)
(***************************************************************************)
get_scope(is_local) == IF is_local THEN local_scopes ELSE block_scopes

\* shadowing that looks into the store of the binding's own kind only.
shadowing_same_store(context, names, is_local) ==
    IF names = {} THEN {}
    ELSE get_scope(is_local)[context] \cap names

\* shadowing that looks into the opposite store only, for blocks as well.
shadowing_opposite_only(context, names, is_local) ==
    IF names = {} THEN {}
    ELSE get_scope(~is_local)[context] \cap names

\* shadowing that folds the store of the binding's own kind in for locals too.
shadowing_both_stores(context, names, is_local) ==
    IF names = {} THEN {}
    ELSE (block_scopes[context] \cup local_scopes[context]) \cap names

\* shadowing that lets a local binding shadow nothing.
shadowing_blocks_only(context, names, is_local) ==
    IF names = {} \/ is_local THEN {}
    ELSE (block_scopes[context] \cup local_scopes[context]) \cap names

\* _Scope.shadowing: the intersection for a set of names and a context.
shadowing(context, names, is_local) ==
    IF names = {} THEN {}
    ELSE LET opposite == get_scope(~is_local)[context]
             current_names ==
                 IF ~is_local
                 THEN opposite \cup get_scope(is_local)[context]
                 ELSE opposite
         IN  current_names \cap names

\* add_to_scope that keeps the unused variable.
add_to_scope_keep_unused(context, names, is_local) ==
    LET scope == get_scope(is_local)
    IN  [scope EXCEPT ![context] = @ \cup names]

\* add_to_scope that assigns the names bound in place of uniting them.
add_to_scope_replace(context, names, is_local) ==
    LET scope == get_scope(is_local)
    IN  [scope EXCEPT ![context] = names \ {UNUSED_VARIABLE}]

\* add_to_scope that records the names for every context.
add_to_scope_all_contexts(context, names, is_local) ==
    LET scope == get_scope(is_local)
    IN  [c \in Contexts |-> (scope[c] \cup names) \ {UNUSED_VARIABLE}]

\* _Scope.add_to_scope: the new value of the store chosen by is_local.
add_to_scope(context, names, is_local) ==
    LET scope == get_scope(is_local)
    IN  [scope EXCEPT ![context] = (@ \cup names) \ {UNUSED_VARIABLE}]

(***************************************************************************)
(* BlockVariableVisitor.                                                   *)
(***************************************************************************)
Overlap(node, text) ==
    [code |-> "BlockAndLocalOverlapViolation", node |-> node, text |-> text]

\* _scope that records the names only when they shadow nothing.
scope_unless_shadowing(t, node, names, is_local) ==
    LET context == get_context(t, node)
        shadow == shadowing(context, names, is_local)
        stored == IF shadow = {}
                  THEN add_to_scope(context, names, is_local)
                  ELSE get_scope(is_local)
    IN  /\ IF shadow # {}
           THEN \E text \in Orderings(shadow) :
                    bv_violations' = Append(bv_violations, Overlap(node, text))
           ELSE bv_violations' = bv_violations
        /\ block_scopes' = IF is_local THEN block_scopes ELSE stored
        /\ local_scopes' = IF is_local THEN stored ELSE local_scopes
        /\ events' = Append(events,
               [node |-> node, context |-> context, names |-> names,
                is_local |-> is_local, shadow |-> shadow,
                seen |-> Len(bv_violations),
                before_block |-> block_scopes[context],
                before_local |-> local_scopes[context]])

\* BlockVariableVisitor._scope, called with the node _Scope is built from.
scope(t, node, names, is_local) ==
    LET context == get_context(t, node)
        shadow == shadowing(context, names, is_local)
        stored == add_to_scope(context, names, is_local)
    IN  /\ IF shadow # {}
           THEN \E text \in Orderings(shadow) :
                    bv_violations' = Append(bv_violations, Overlap(node, text))
           ELSE bv_violations' = bv_violations
        /\ block_scopes' = IF is_local THEN block_scopes ELSE stored
        /\ local_scopes' = IF is_local THEN stored ELSE local_scopes
        /\ events' = Append(events,
               [node |-> node, context |-> context, names |-> names,
                is_local |-> is_local, shadow |-> shadow,
                seen |-> Len(bv_violations),
                before_block |-> block_scopes[context],
                before_local |-> local_scopes[context]])

\* visit_FunctionDef, visit_AsyncFunctionDef, visit_ClassDef,
\* visit_ExceptHandler.  An unnamed handler has the empty set of names.
bv_visit_named_nodes(t, n) == scope(t, n, t[n].names, FALSE)

\* visit_For, visit_AsyncFor.
bv_visit_any_for(t, n) == scope(t, n, t[n].names, FALSE)

bv_visit_alias(t, n) == scope(t, get_parent(t, n), t[n].names, FALSE)

bv_visit_withitem(t, n) ==
    IF t[n].names # {}
    THEN scope(t, get_parent(t, n), t[n].names, FALSE)
    ELSE UNCHANGED bv_vars

\* visit_Assign, visit_AnnAssign, visit_arg.
bv_visit_locals(t, n) == scope(t, n, t[n].names, TRUE)

(***************************************************************************)
(* AfterBlockVariablesVisitor.                                             *)
(***************************************************************************)
Leak(node, text) ==
    [code |-> "ControlVarUsedAfterBlockViolation", node |-> node,
     text |-> text]

\* _add_to_scope that keeps the latest block of a name only.
ab_add_to_scope_latest(t, node, names) ==
    LET context == get_context(t, node)
    IN  /\ block_variables' =
               [block_variables EXCEPT ![context] =
                   [var_name \in Names |->
                       IF var_name \in names THEN <<node>>
                       ELSE @[var_name]]]
        /\ UNCHANGED <<ab_violations, reads>>

\* AfterBlockVariablesVisitor._add_to_scope.
ab_add_to_scope(t, node, names) ==
    LET context == get_context(t, node)
    IN  /\ block_variables' =
               [block_variables EXCEPT ![context] =
                   [var_name \in Names |->
                       IF var_name \in names THEN Append(@[var_name], node)
                       ELSE @[var_name]]]
        /\ UNCHANGED <<ab_violations, reads>>

\* any() in place of all(): the read is inside one of the blocks.
any_contained(t, node, blocks) ==
    \E i \in DOMAIN blocks : is_contained_by(t, node, blocks[i])

\* The read is accepted only when its name has no block at all.
none_registered(t, node, blocks) == blocks = <<>>

\* The read is accepted only when a block is there and contains it.
all_contained_nonempty(t, node, blocks) ==
    /\ blocks # <<>>
    /\ \A i \in DOMAIN blocks : is_contained_by(t, node, blocks[i])

\* The test of _check_variable_usage: the read is inside every block.
all_contained(t, node, blocks) ==
    \A i \in DOMAIN blocks : is_contained_by(t, node, blocks[i])

\* AfterBlockVariablesVisitor._check_variable_usage.
check_variable_usage(t, node) ==
    LET context == get_context(t, node)
        id == CHOOSE x \in t[node].names : TRUE
        blocks == block_variables[context][id]
    IN  /\ ab_violations' =
               IF all_contained(t, node, blocks) THEN ab_violations
               ELSE Append(ab_violations, Leak(node, id))
        /\ block_variables' = block_variables
        /\ reads' = Append(reads,
               [node |-> node, context |-> context, id |-> id,
                blocks |-> blocks])

ab_visit_ExceptHandler(t, n) ==
    IF t[n].names # {}
    THEN ab_add_to_scope(t, n, t[n].names)
    ELSE UNCHANGED ab_vars

ab_visit_any_for(t, n) == ab_add_to_scope(t, n, t[n].names)

ab_visit_withitem(t, n) ==
    IF t[n].names # {}
    THEN ab_add_to_scope(t, get_parent(t, n), t[n].names)
    ELSE UNCHANGED ab_vars

ab_visit_Name(t, n) ==
    IF t[n].ctx = "Load"
    THEN check_variable_usage(t, n)
    ELSE UNCHANGED ab_vars

(***************************************************************************)
(* The traversal: one action per kind of node, for the two visitors.       *)
(***************************************************************************)
Step(nd) ==
    /\ tree' = TreeWith(nd)
    /\ pos' = pos + 1
    /\ UNCHANGED <<run, prev_violations>>

\* A function or class definition: AfterBlockVariablesVisitor has no
\* handler for it.
VisitDefinition ==
    \E nd \in NextNodes({"Def"}) :
        /\ Step(nd)
        /\ bv_visit_named_nodes(TreeWith(nd), pos + 1)
        /\ UNCHANGED ab_vars

VisitExceptHandler ==
    \E nd \in NextNodes({"ExceptHandler"}) :
        /\ Step(nd)
        /\ bv_visit_named_nodes(TreeWith(nd), pos + 1)
        /\ ab_visit_ExceptHandler(TreeWith(nd), pos + 1)

VisitAnyFor ==
    \E nd \in NextNodes({"For"}) :
        /\ Step(nd)
        /\ bv_visit_any_for(TreeWith(nd), pos + 1)
        /\ ab_visit_any_for(TreeWith(nd), pos + 1)

VisitAlias ==
    \E nd \in NextNodes({"alias"}) :
        /\ Step(nd)
        /\ bv_visit_alias(TreeWith(nd), pos + 1)
        /\ UNCHANGED ab_vars

VisitWithitem ==
    \E nd \in NextNodes({"withitem"}) :
        /\ Step(nd)
        /\ bv_visit_withitem(TreeWith(nd), pos + 1)
        /\ ab_visit_withitem(TreeWith(nd), pos + 1)

\* VisitLocals with an assignment or parameter registered as a block.
VisitLocals_registered ==
    \E nd \in NextNodes({"Assign", "arg"}) :
        /\ Step(nd)
        /\ bv_visit_locals(TreeWith(nd), pos + 1)
        /\ ab_add_to_scope(TreeWith(nd), pos + 1, nd.names)

VisitLocals ==
    \E nd \in NextNodes({"Assign", "arg"}) :
        /\ Step(nd)
        /\ bv_visit_locals(TreeWith(nd), pos + 1)
        /\ UNCHANGED ab_vars

VisitName ==
    \E nd \in NextNodes({"Name"}) :
        /\ Step(nd)
        /\ UNCHANGED bv_vars
        /\ ab_visit_Name(TreeWith(nd), pos + 1)

\* An import or with statement itself: generic_visit in both visitors.
VisitOther ==
    \E nd \in NextNodes({"Import", "With"}) :
        /\ Step(nd)
        /\ UNCHANGED <<bv_vars, ab_vars>>

\* The tree is walked to its end and fresh instances of the two visitors
\* are run over it again.  Instance attributes start anew; the class
\* attributes of _Scope are what the first run left.
NewRun ==
    /\ run = "first"
    /\ pos = Len(tree)
    /\ pos > 0
    /\ tree[pos].kind \notin {"Import", "With"}
    /\ run' = "second"
    /\ pos' = 0
    /\ prev_violations' = bv_violations
    /\ bv_violations' = <<>>
    /\ events' = <<>>
    /\ ab_violations' = <<>>
    /\ reads' = <<>>
    /\ block_variables' = [c \in Contexts |-> [x \in Names |-> <<>>]]
    /\ UNCHANGED <<tree, block_scopes, local_scopes>>

Init ==
    /\ tree = <<>>
    /\ pos = 0
    /\ run = "first"
    /\ block_scopes = [c \in Contexts |-> {}]
    /\ local_scopes = [c \in Contexts |-> {}]
    /\ bv_violations = <<>>
    /\ block_variables = [c \in Contexts |-> [x \in Names |-> <<>>]]
    /\ ab_violations = <<>>
    /\ events = <<>>
    /\ reads = <<>>
    /\ prev_violations = <<>>

Next ==
    \/ VisitDefinition
    \/ VisitExceptHandler
    \/ VisitAnyFor
    \/ VisitAlias
    \/ VisitWithitem
    \/ VisitLocals
    \/ VisitName
    \/ VisitOther

\* One run of the two visitors over a tree.
Spec == Init /\ [][Next]_vars

NextRuns == Next \/ NewRun

\* A run over a tree, followed by a run of fresh visitors over that tree.
SpecRuns == Init /\ [][NextRuns]_vars

(***************************************************************************)
(* Properties.                                                             *)
(***************************************************************************)
Range(s) == {s[i] : i \in DOMAIN s}

\* The violations that the k-th _scope call of the run added: those after
\* the ones it found, up to the ones the next call found.
ReportedBy(k) ==
    (events[k].seen + 1) ..
        (IF k < Len(events) THEN events[k + 1].seen ELSE Len(bv_violations))

\* The k-th _scope call reported an overlap at its node that lists name.
ReportsOverlap(k, name) ==
    \E i \in ReportedBy(k) :
        /\ bv_violations[i].code = "BlockAndLocalOverlapViolation"
        /\ bv_violations[i].node = events[k].node
        /\ name \in Range(bv_violations[i].text)

Used == Names \ {UNUSED_VARIABLE}

\* C1: a name bound as a block name in a context and later bound as a local
\* name in the same context is reported, at the node of the local binding,
\* by an overlap violation that lists the name.
C1_BlockThenLocalReported ==
    \A i, j \in DOMAIN events : \A name \in Used :
        ( /\ i < j
          /\ events[i].context = events[j].context
          /\ ~events[i].is_local /\ name \in events[i].names
          /\ events[j].is_local /\ name \in events[j].names )
        => ReportsOverlap(j, name)

C1_Witness ==
    \E i, j \in DOMAIN events : \E name \in Used :
        /\ i < j
        /\ events[i].context = events[j].context
        /\ ~events[i].is_local /\ name \in events[i].names
        /\ events[j].is_local /\ name \in events[j].names
        /\ ReportsOverlap(j, name)
        /\ Cardinality(ReportedBy(j)) = 1

\* C2: a block binding of a name that is already in the block names or in
\* the local names of its context reports exactly one overlap violation, at
\* the node of this binding, that lists the name; the text is the name
\* itself when it is the only name bound.
C2_BlockRebindingReportedOnce ==
    \A k \in DOMAIN events : \A name \in Used :
        ( /\ ~events[k].is_local
          /\ name \in events[k].names
          /\ name \in events[k].before_block \cup events[k].before_local )
        => /\ Cardinality(ReportedBy(k)) = 1
           /\ ReportsOverlap(k, name)
           /\ events[k].names = {name} =>
                  \A i \in ReportedBy(k) : bv_violations[i].text = <<name>>

\* An import followed by a class or function of the same name, reported once
\* at the definition.
C2_Witness ==
    /\ Len(tree) = 3 /\ pos = 3
    /\ tree[1].kind = "Import" /\ tree[2].kind = "alias"
    /\ tree[3].kind = "Def" /\ tree[3].parent = Module
    /\ tree[2].names = {"a"} /\ tree[3].names = {"a"}
    /\ bv_violations = <<Overlap(3, <<"a">>)>>

\* C3 as stated: two local bindings of a name in one context with no block
\* binding of the name between them report no overlap, neither of the two.
C3_Original ==
    \A i, j \in DOMAIN events : \A name \in Names :
        ( /\ i < j
          /\ events[i].context = events[j].context
          /\ events[i].is_local /\ name \in events[i].names
          /\ events[j].is_local /\ name \in events[j].names
          /\ \A k \in DOMAIN events :
                 (i < k /\ k < j /\ events[k].context = events[i].context
                        /\ ~events[k].is_local)
                 => name \notin events[k].names )
        => /\ ~ReportsOverlap(i, name)
           /\ ~ReportsOverlap(j, name)

\* C3, amended: two local bindings of a name in one context report no
\* overlap that lists the name when the name is not among the block names
\* of the context by the time of the second binding.
C3_LocalRebindingNotReported ==
    \A i, j \in DOMAIN events : \A name \in Names :
        ( /\ i < j
          /\ events[i].context = events[j].context
          /\ events[i].is_local /\ name \in events[i].names
          /\ events[j].is_local /\ name \in events[j].names
          /\ name \notin events[j].before_block )
        => /\ ~ReportsOverlap(i, name)
           /\ ~ReportsOverlap(j, name)

C3_Witness ==
    \E i, j \in DOMAIN events : \E name \in Used :
        /\ i < j
        /\ events[i].context = events[j].context
        /\ events[i].is_local /\ name \in events[i].names
        /\ events[j].is_local /\ name \in events[j].names
        /\ name \notin events[j].before_block
        /\ name \in events[j].before_local
        /\ ReportedBy(i) = {} /\ ReportedBy(j) = {}

\* C4: the unused variable is in no set of block names and in no set of
\* local names, no overlap violation lists it, and bindings that share no
\* other name within a context report nothing at all.
C4_UnusedVariableExempt ==
    /\ \A c \in Contexts :
           UNUSED_VARIABLE \notin block_scopes[c] \cup local_scopes[c]
    /\ \A i \in DOMAIN bv_violations :
           UNUSED_VARIABLE \notin Range(bv_violations[i].text)
    /\ ( \A i, j \in DOMAIN events :
             (i < j /\ events[i].context = events[j].context)
             => events[i].names \cap events[j].names \subseteq {UNUSED_VARIABLE} )
       => bv_violations = <<>>

\* for a, _ in ...: ... followed by for _, b in ...: ... in one context.
C4_Witness ==
    /\ Len(events) = 2
    /\ events[1].context = events[2].context
    /\ ~events[1].is_local /\ ~events[2].is_local
    /\ tree[events[1].node].kind = "For"
    /\ tree[events[2].node].kind = "For"
    /\ events[1].names = {"a", UNUSED_VARIABLE}
    /\ events[2].names = {UNUSED_VARIABLE, "b"}
    /\ bv_violations = <<>>

\* The nodes visited so far that introduce block variables, and the node
\* each registers: itself, or the with statement of a with item.
BlockIntroducers ==
    {n \in 1..pos :
        /\ tree[n].kind \in {"For", "ExceptHandler", "withitem"}
        /\ tree[n].names # {}}

BlockNodeOf(n) == IF tree[n].kind = "withitem" THEN tree[n].parent ELSE n

LoadReads == {n \in 1..pos : tree[n].kind = "Name" /\ tree[n].ctx = "Load"}

NameOf(n) == CHOOSE x \in tree[n].names : TRUE

LeakAt(n) ==
    \E i \in DOMAIN ab_violations : ab_violations[i] = Leak(n, NameOf(n))

\* C5: a read is reported, at the read and with its name, exactly when one
\* of the blocks registered so far for its context and name does not
\* contain it; every violation belongs to one read.
C5_ReportedIffOutsideSomeBlock ==
    /\ \A k \in DOMAIN reads :
           LeakAt(reads[k].node)
           <=> \E i \in DOMAIN reads[k].blocks :
                   ~is_contained_by(tree, reads[k].node, reads[k].blocks[i])
    /\ \A i \in DOMAIN ab_violations :
           \E k \in DOMAIN reads : ab_violations[i].node = reads[k].node
    /\ \A i, j \in DOMAIN ab_violations :
           ab_violations[i].node = ab_violations[j].node => i = j

\* Two sibling loops over a; the read of a inside the second is reported.
C5_Witness ==
    /\ Len(tree) = 3 /\ pos = 3
    /\ tree[1].kind = "For" /\ tree[2].kind = "For"
    /\ tree[1].parent = tree[2].parent
    /\ tree[3].kind = "Name" /\ tree[3].ctx = "Load" /\ tree[3].parent = 2
    /\ Len(reads) = 1 /\ reads[1].blocks = <<1, 2>>
    /\ ab_violations = <<Leak(3, "a")>>

ReadOf(n) == CHOOSE k \in DOMAIN reads : reads[k].node = n

\* C6 as stated: every reported read is inside none of the blocks
\* registered for its context and name.
C6_Original ==
    \A i \in DOMAIN ab_violations :
        LET r == reads[ReadOf(ab_violations[i].node)]
        IN  \A j \in DOMAIN r.blocks :
                ~is_contained_by(tree, r.node, r.blocks[j])

\* C6, amended: every reported read is outside at least one of the blocks
\* registered for its context and name.
C6_ReportedReadOutsideSomeBlock ==
    \A i \in DOMAIN ab_violations :
        LET r == reads[ReadOf(ab_violations[i].node)]
        IN  \E j \in DOMAIN r.blocks :
                ~is_contained_by(tree, r.node, r.blocks[j])

C6_Witness ==
    \E i \in DOMAIN ab_violations :
        LET r == reads[ReadOf(ab_violations[i].node)]
        IN  /\ Len(r.blocks) = 2
            /\ ~is_contained_by(tree, r.node, r.blocks[1])
            /\ is_contained_by(tree, r.node, r.blocks[2])

\* C7 as stated: a read of a name, visited after a block that binds the
\* name and not contained in that block, is reported with the name.
C7_Original ==
    \A b \in BlockIntroducers : \A r \in LoadReads :
        ( /\ b < r
          /\ NameOf(r) \in tree[b].names
          /\ ~is_contained_by(tree, r, BlockNodeOf(b)) )
        => LeakAt(r)

\* C7, amended: the same, for a read in the lexical context of the block.
C7_ReadAfterBlockReported ==
    \A b \in BlockIntroducers : \A r \in LoadReads :
        ( /\ b < r
          /\ NameOf(r) \in tree[b].names
          /\ get_context(tree, BlockNodeOf(b)) = get_context(tree, r)
          /\ ~is_contained_by(tree, r, BlockNodeOf(b)) )
        => LeakAt(r)

C7_Witness ==
    \E b \in BlockIntroducers : \E r \in LoadReads :
        /\ b < r
        /\ NameOf(r) \in tree[b].names
        /\ get_context(tree, BlockNodeOf(b)) = get_context(tree, r)
        /\ get_context(tree, r) # Module
        /\ ~is_contained_by(tree, r, BlockNodeOf(b))
        /\ LeakAt(r)

\* C8: a read contained in a block that binds its name is not reported
\* because of that block: when it is reported, another block that binds the
\* name in the context of the read, registered before the read, does not
\* contain it.
C8_ReadInsideBlockNotReported ==
    \A b \in BlockIntroducers : \A r \in LoadReads :
        ( /\ NameOf(r) \in tree[b].names
          /\ is_contained_by(tree, r, BlockNodeOf(b))
          /\ LeakAt(r) )
        => \E c \in BlockIntroducers :
               /\ c < r
               /\ BlockNodeOf(c) # BlockNodeOf(b)
               /\ NameOf(r) \in tree[c].names
               /\ get_context(tree, BlockNodeOf(c)) = get_context(tree, r)
               /\ ~is_contained_by(tree, r, BlockNodeOf(c))

C8_Witness ==
    \E b \in BlockIntroducers : \E r \in LoadReads :
        /\ NameOf(r) \in tree[b].names
        /\ get_context(tree, BlockNodeOf(b)) = get_context(tree, r)
        /\ is_contained_by(tree, r, BlockNodeOf(b))
        /\ reads[ReadOf(r)].blocks = <<BlockNodeOf(b)>>
        /\ ~LeakAt(r)

BeforeOf(e) == IF e.is_local THEN e.before_local ELSE e.before_block

\* The j-th _scope call is of the kind and context of the k-th.
Alike(j, k) ==
    /\ events[j].context = events[k].context
    /\ events[j].is_local = events[k].is_local

\* The names that the k-th _scope call has to leave in the store of its
\* kind for its context.
Committed(k) ==
    (BeforeOf(events[k]) \cup events[k].names) \ {UNUSED_VARIABLE}

\* What the store of the k-th call's kind holds for its context right after
\* the call is what the next call alike finds there, or, after the last
\* such call, what the store holds now.
CommittedSeen(k) ==
    /\ \A j \in (k + 1)..Len(events) :
           (Alike(j, k) /\ \A i \in (k + 1)..(j - 1) : ~Alike(i, k))
           => BeforeOf(events[j]) = Committed(k)
    /\ (\A j \in (k + 1)..Len(events) : ~Alike(j, k))
       => get_scope(events[k].is_local)[events[k].context] = Committed(k)

Told(v) == [node |-> v.node, names |-> Range(v.text)]

\* C10: a run starts with no block names and no local names in any context,
\* and a second run of fresh visitors over a tree reports what the first
\* run over that tree reported.
C10_RunScoped ==
    run = "second" =>
        /\ pos = 0 =>
               \A c \in Contexts :
                   block_scopes[c] = {} /\ local_scopes[c] = {}
        /\ pos = Len(tree) =>
               /\ Len(bv_violations) = Len(prev_violations)
               /\ \A i \in DOMAIN bv_violations :
                      Told(bv_violations[i]) = Told(prev_violations[i])

\* C11: the unused variable is exempt from the bookkeeping of leaks: no
\* block node is registered under it in any context, and no leak violation
\* is reported for a read of it.
C11_UnusedVariableNeverLeaks ==
    /\ \A c \in Contexts : block_variables[c][UNUSED_VARIABLE] = <<>>
    /\ \A i \in DOMAIN ab_violations :
           ab_violations[i].text # UNUSED_VARIABLE

\* The overlap of a binding, from the names its context had before it.
OverlapOf(e) ==
    IF e.is_local
    THEN e.before_block \cap e.names
    ELSE (e.before_local \cup e.before_block) \cap e.names

\* The place of a name in the sorted order of names.
NameRank(x) == CHOOSE i \in DOMAIN NameOrder : NameOrder[i] = x

\* The names of S, each once, in sorted order.
SortedNames(S) ==
    CHOOSE s \in Orderings(S) :
        \A i, j \in DOMAIN s : i < j => NameRank(s[i]) < NameRank(s[j])

\* C12: a binding with a non-empty overlap reports exactly one overlap
\* violation, at its node, whose text lists the overlapping names once each
\* in sorted order; a binding with an empty overlap reports none.
C12_OneSortedOverlapPerBinding ==
    \A k \in DOMAIN events :
        IF OverlapOf(events[k]) # {}
        THEN /\ Cardinality(ReportedBy(k)) = 1
             /\ \A i \in ReportedBy(k) :
                    bv_violations[i] =
                        Overlap(events[k].node,
                                SortedNames(OverlapOf(events[k])))
        ELSE ReportedBy(k) = {}

\* The k-th _scope call is the one that made name a member of both the block
\* names and the local names of context c: it bound the name, found it among
\* the names of the opposite kind and not among the names of its own kind.
Collides(k, c, name) ==
    /\ events[k].context = c
    /\ name \in events[k].names
    /\ IF events[k].is_local
       THEN name \in events[k].before_block
            /\ name \notin events[k].before_local
       ELSE name \in events[k].before_local
            /\ name \notin events[k].before_block

\* C13: a name that is among the block names and among the local names of a
\* context has been reported already, by the binding that made it a member
\* of the second of the two sets.
C13_BothSetsAlreadyReported ==
    \A c \in Contexts : \A name \in block_scopes[c] \cap local_scopes[c] :
        /\ \E k \in DOMAIN events : Collides(k, c, name)
        /\ \A k \in DOMAIN events :
               Collides(k, c, name) => ReportsOverlap(k, name)

\* A local binding and then a block binding of the name, which is the one
\* reported, with a further binding after it.
C13_Witness ==
    \E c \in Contexts : \E name \in Used :
        /\ name \in block_scopes[c] \cap local_scopes[c]
        /\ \E k \in DOMAIN events :
               /\ Collides(k, c, name)
               /\ ~events[k].is_local
               /\ ReportsOverlap(k, name)
               /\ k < Len(events)

\* s is what t began with: t is s with elements appended.
IsPrefix(s, t) == Len(s) <= Len(t) /\ SubSeq(t, 1, Len(s)) = s

\* A step keeps what the two visitors hold: every name of every set, every
\* registration list as the beginning of the new one, every violation.
Grows ==
    /\ \A c \in Contexts :
           /\ block_scopes[c] \subseteq block_scopes'[c]
           /\ local_scopes[c] \subseteq local_scopes'[c]
           /\ \A x \in Names :
                  IsPrefix(block_variables[c][x], block_variables'[c][x])
    /\ IsPrefix(bv_violations, bv_violations')
    /\ IsPrefix(ab_violations, ab_violations')

\* C14: the state of the two visitors only grows: no step removes a name
\* from the block names or the local names of a context, removes or
\* reorders a node of a registration list, or removes a violation.
C14_StateOnlyGrows == [][Grows]_vars

\* A binding that includes the unused variable came upon names recorded
\* before it and left them; a name has two blocks registered and there is a
\* violation to keep.
C14_Witness ==
    /\ \E k \in DOMAIN events :
           /\ UNUSED_VARIABLE \in events[k].names
           /\ BeforeOf(events[k]) # {}
           /\ ~(events[k].names \subseteq
                    BeforeOf(events[k]) \cup {UNUSED_VARIABLE})
           /\ BeforeOf(events[k]) \subseteq
                  get_scope(events[k].is_local)[events[k].context]
    /\ \E c \in Contexts : \E x \in Names : Len(block_variables[c][x]) = 2
    /\ Len(bv_violations) + Len(ab_violations) >= 1

\* The introducers of the name of the read r, in the context of r, that
\* were visited before r.
EarlierBlocks(r) ==
    {b \in BlockIntroducers :
        /\ b < r
        /\ NameOf(r) \in tree[b].names
        /\ get_context(tree, BlockNodeOf(b)) = get_context(tree, r)}

\* C15: a read is judged once, against the blocks registered before it: a
\* read that found no block for its context and name is not reported,
\* whatever is registered after it; a read is reported exactly when a block
\* registered before it does not contain it, and at most once.
C15_ReadJudgedAgainstEarlierBlocks ==
    /\ \A r \in LoadReads : LeakAt(r) => EarlierBlocks(r) # {}
    /\ \A r \in LoadReads :
           LeakAt(r) <=> \E b \in EarlierBlocks(r) :
                             ~is_contained_by(tree, r, BlockNodeOf(b))
    /\ \A i, j \in DOMAIN ab_violations :
           ab_violations[i].node = ab_violations[j].node => i = j

\* A read of a name, then a block that binds the name in the context of the
\* read and is registered: the read stays unreported.
C15_Witness ==
    \E r \in LoadReads : \E b \in BlockIntroducers :
        /\ r < b
        /\ NameOf(r) \in tree[b].names
        /\ NameOf(r) # UNUSED_VARIABLE
        /\ get_context(tree, BlockNodeOf(b)) = get_context(tree, r)
        /\ reads[ReadOf(r)].blocks = <<>>
        /\ block_variables[get_context(tree, r)][NameOf(r)] # <<>>
        /\ ~is_contained_by(tree, r, BlockNodeOf(b))
        /\ ab_violations = <<>>

\* The _scope call that a step made, if it made one.
Bound == Len(events') = Len(events) + 1

LastBound == events'[Len(events')]

\* A step changes the names of a context only by a binding resolved to that
\* context, and then only the set of the kind of the binding; it changes
\* the registrations of a context only for a block of that context.
OneSetOfOneContext ==
    \A c \in Contexts :
        /\ block_scopes'[c] # block_scopes[c] =>
               /\ Bound
               /\ get_context(tree', LastBound.node) = c
               /\ ~LastBound.is_local
        /\ local_scopes'[c] # local_scopes[c] =>
               /\ Bound
               /\ get_context(tree', LastBound.node) = c
               /\ LastBound.is_local
        /\ block_variables'[c] # block_variables[c] =>
               LET nd == tree'[pos']
                   block == IF nd.kind = "withitem" THEN nd.parent ELSE pos'
               IN  /\ nd.kind \in {"For", "ExceptHandler", "withitem"}
                   /\ nd.names # {}
                   /\ get_context(tree', block) = c

\* An overlap reported at a binding lists names that an earlier binding of
\* the same context bound; the blocks a read was judged against are blocks
\* of the context of the read.
OwnContextOnly ==
    /\ \A k \in DOMAIN events : \A name \in Names :
           ReportsOverlap(k, name) =>
               \E j \in 1..(k - 1) :
                   /\ get_context(tree, events[j].node) =
                          get_context(tree, events[k].node)
                   /\ name \in events[j].names
    /\ \A k \in DOMAIN reads : \A i \in DOMAIN reads[k].blocks :
           get_context(tree, reads[k].blocks[i]) =
               get_context(tree, reads[k].node)

\* C16: contexts are isolated and a binding touches one set: a binding of a
\* kind resolved to a context changes the set of that kind of that context
\* and no other set; an overlap is reported only for names bound in the
\* context of the binding, and a read is judged only against the blocks
\* registered under its context.
C16_ContextsIsolated == []OwnContextOnly /\ [][OneSetOfOneContext]_vars

\* def a(): with a loop over a in its body, and a read of a after the
\* function: the name is a block name of the module and of the function,
\* nothing overlaps and the read is not judged against the loop.
C16_Witness ==
    /\ Len(tree) = 3 /\ pos = 3
    /\ tree[1].kind = "Def" /\ tree[1].names = {"a"}
    /\ tree[2].kind = "For" /\ tree[2].parent = 1 /\ tree[2].names = {"a"}
    /\ tree[3].kind = "Name" /\ tree[3].ctx = "Load"
    /\ tree[3].parent = Module /\ tree[3].names = {"a"}
    /\ block_scopes[Module] = {"a"} /\ block_scopes[1] = {"a"}
    /\ local_scopes[Module] = {} /\ local_scopes[1] = {}
    /\ block_variables[1]["a"] = <<2>>
    /\ block_variables[Module]["a"] = <<>>
    /\ bv_violations = <<>>
    /\ ab_violations = <<>>

\* The nodes visited so far that bind names, and the context each binds
\* them in: an alias binds in the context of its import, a with item in the
\* context of its with statement.
Binders == {n \in 1..pos : tree[n].kind # "Name" /\ tree[n].names # {}}

BindingContext(n) ==
    get_context(tree,
        IF tree[n].kind \in {"alias", "withitem"} THEN tree[n].parent ELSE n)

\* Definitions, import aliases, assignments and parameters.
UnregisteredKinds == {"Def", "alias", "Assign", "arg"}

\* The binders of the name of the read r in the context of r.
BindersOf(r) ==
    {n \in Binders :
        /\ NameOf(r) \in tree[n].names
        /\ BindingContext(n) = get_context(tree, r)}

\* C17: only loops, named handlers and with statements that bind names are
\* registered for the leak check; a read of a name that only definitions,
\* import aliases, assignments and parameters bind in its context is not
\* reported, wherever it stands.
C17_OnlyBlocksRegistered ==
    /\ \A c \in Contexts : \A x \in Names :
           \A i \in DOMAIN block_variables[c][x] :
               \E b \in BlockIntroducers :
                   /\ BlockNodeOf(b) = block_variables[c][x][i]
                   /\ x \in tree[b].names
    /\ \A r \in LoadReads :
           LeakAt(r) =>
               \E n \in BindersOf(r) : tree[n].kind \notin UnregisteredKinds

\* A read of a name after a definition, alias, assignment or parameter that
\* binds it, outside the binder, in a context with a registered block of
\* another name: not reported.
C17_Witness ==
    \E r \in LoadReads :
        /\ BindersOf(r) # {}
        /\ \A n \in BindersOf(r) :
               /\ tree[n].kind \in UnregisteredKinds
               /\ n < r
               /\ ~is_contained_by(tree, r, n)
        /\ \E x \in Names : block_variables[get_context(tree, r)][x] # <<>>
        /\ ab_violations = <<>>

====
